---- MODULE Spec2Model ----
(***************************************************************************)
(* The room engine of pvp-trainer.  The repository holds three server      *)
(* programs: src/server.js (lobby + game), src/unnamed/part_000 (the       *)
(* best-of-N variant) and src/unnamed/part_001 (the lobby-only variant).   *)
(* One of them runs; `impl` says which.  Every socket.io handler runs to   *)
(* completion on node's single thread, so each handler and each timer      *)
(* callback is one atomic action.                                          *)
(*                                                                         *)
(* Room ids are modelled as numbers: 0 stands for the falsy ids (undefined *)
(* and ""), 1.. for the non-empty ids clients choose.                      *)
(***************************************************************************)
EXTENDS Integers, Sequences, FiniteSets, TLC

\* ---------------------------------------------------------------- bounds
\* connections that ever open
NConns == 3
\* non-empty room ids the lobby specification's clients use
NRooms == 2
\* non-empty room ids the round specifications' clients use
NGameRooms == 1
\* connections that take part in the duel specifications
NDuel == 2
\* castRune / shoot events handled in one run
MaxCasts == 4
\* setTimeout callbacks pending at once
MaxTimers == 2
\* castRune events handled in one run of the aiming specification
MaxAimCasts == 3

\* ------------------------------------------------------ program constants
GRID == 16
MAX_HP == 100
SD_DMG == 40
UH_HEAL == 40
EXPLO_DMG == 19
CAPACITY == 2

Conns == 1..NConns
DuelConns == 1..NDuel
\* JavaScript's undefined where a socket id is expected
NoConn == 0
\* the falsy room id
NoId == 0
\* the ids createRoom and joinRoom payloads carry, the falsy one included
LobbyIds == 0..NRooms
\* the ids enterGame payloads carry
RoomIds == 1..NRooms
GameIds == 1..NGameRooms
Nicknames == {"", "Ann"}
\* the tiles the round specifications sample targets and spawns from
Tiles == {<<0, 0>>, <<0, 1>>}
\* the tile randomSpawn() is taken to return
SpawnTiles == {<<0, 0>>}
\* the tiles the aiming specification samples positions and targets from: the
\* corner, its neighbour, and a tile outside the grid
AimTiles == {<<0, 0>>, <<1, 0>>, <<-1, 0>>}
\* the tile the aiming specification's moveStart events name
StartTiles == {<<1, 0>>}
\* the tile the rejoin specification samples moves from
StepTiles == {<<0, 1>>}
\* JavaScript's null for `next`
Null == <<>>
RuneTypes == {"explo", "sd", "uh"}

VARIABLES
  impl,     \* which program runs: "server", "match" or "lobby"
  open,     \* open[c]: connection c is connected
  sdata,    \* socket.data.roomId of each connection (NoId while undefined)
  rooms,    \* the registry: room id -> room, for the ids present
  joined,   \* socket.io room membership: room id -> sockets that join()ed
  timers,   \* pending setTimeout callbacks of setReady, in arming order
  overs,    \* history: per room id, roundOver broadcasts since the last
            \* roundStart broadcast (-1 before any roundStart)
  ncast,    \* number of castRune / shoot events handled so far (bounded)
  out,      \* the events the last handler emitted, in order
  mrooms,   \* part_000's registry: room id -> room, for the ids present
  mtimers,  \* part_000's pending setInterval / setTimeout callbacks
  uuids     \* part_000: how many room ids create_room has generated

vars == <<impl, open, sdata, rooms, joined, timers, overs, ncast, out,
          mrooms, mtimers, uuids>>
\* the state of server.js and part_001 / of part_000
srvVars == <<rooms, timers>>
matchVars == <<mrooms, mtimers, uuids>>

\* ---------------------------------------------------------------- helpers
Max(a, b) == IF a >= b THEN a ELSE b
Min(a, b) == IF a <= b THEN a ELSE b

\* obj[k] = v
MapSet(f, k, v) == [x \in (DOMAIN f) \cup {k} |-> IF x = k THEN v ELSE f[x]]
\* delete obj[k]
MapDel(f, k) == [x \in (DOMAIN f) \ {k} |-> f[x]]
\* obj[k] ?? d
MapGet(f, k, d) == IF k \in DOMAIN f THEN f[k] ELSE d
EmptyMap == [x \in {} |-> 0]

\* the elements of an array
Range(s) == {s[i] : i \in 1..Len(s)}
\* array.filter(id => id !== c)
RECURSIVE Without(_, _)
Without(s, c) ==
  IF s = <<>> THEN <<>>
  ELSE IF Head(s) = c THEN Without(Tail(s), c)
       ELSE <<Head(s)>> \o Without(Tail(s), c)

\* an emitted event and the sockets it is delivered to
Emit(ev, to) == [ev |-> ev, to |-> to]
\* the acknowledgement callback cb({success, message})
Cb(c, ok, msg) == [ev |-> "cb", to |-> {c}, success |-> ok, message |-> msg]


\* ------------------------------------------------------------- server.js
EmptyRoom ==
  [players |-> <<>>, nick |-> EmptyMap, score |-> EmptyMap, pos |-> EmptyMap,
   next |-> EmptyMap, hp |-> EmptyMap, ready |-> EmptyMap]

ensureRoom(rs, roomId) ==
  IF roomId \in DOMAIN rs THEN rs ELSE rs @@ (roomId :> EmptyRoom)

roomHasSpace_mut(room) == Len(room.players) <= CAPACITY
roomHasSpace(room) == Len(room.players) < CAPACITY

\* room.players.find(id => id !== me), undefined when there is none
opponentOf(room, me) ==
  LET others == {i \in 1..Len(room.players) : room.players[i] # me}
  IN IF others = {} THEN NoConn
     ELSE room.players[CHOOSE i \in others : \A j \in others : i <= j]

\* io.to(roomId).emit(event)
broadcastRoom(roomId, event) == Emit(event, joined[roomId])
\* socket.to(roomId).emit(event)
socketTo(c, roomId, event) == Emit(event, joined[roomId] \ {c})

\* the ids getActiveRooms() lists
getActiveRooms(rs) == {id \in DOMAIN rs : Len(rs[id].players) > 0}
\* io.emit("roomsUpdate", getActiveRooms())
roomsUpdate(rs, conns) ==
  [ev |-> "roomsUpdate", to |-> conns, rooms |-> getActiveRooms(rs)]
Connected == {c \in Conns : open[c]}

\* createRoom's test that the id is in use
roomTaken_mut(room) == Len(room.players) > 1
roomTaken(room) == Len(room.players) > 0

\* the seven assignments of createRoom and joinRoom that add socket c
addOccupant(room, c, nickname, spawn) ==
  [players |-> Append(room.players, c),
   nick    |-> MapSet(room.nick, c, nickname),
   score   |-> MapSet(room.score, c, 0),
   pos     |-> MapSet(room.pos, c, spawn),
   next    |-> MapSet(room.next, c, Null),
   hp      |-> MapSet(room.hp, c, MAX_HP),
   ready   |-> MapSet(room.ready, c, FALSE)]

\* socket.join(roomId)
sioJoin(j, c, roomId) == [j EXCEPT ![roomId] = @ \cup {c}]

createRoom(c, roomId, nickname, spawn) ==
  /\ impl = "server" /\ open[c]
  /\ IF roomId = NoId \/ nickname = ""
     THEN /\ out' = <<Cb(c, FALSE, "Missing room or nickname")>>
          /\ UNCHANGED <<rooms, joined, sdata>>
     ELSE LET rs == ensureRoom(rooms, roomId)
          IN IF roomTaken(rs[roomId])
             THEN /\ out' = <<Cb(c, FALSE, "Room ID already taken")>>
                  /\ rooms' = rs
                  /\ UNCHANGED <<joined, sdata>>
             ELSE LET rs2 == [rs EXCEPT ![roomId] =
                                addOccupant(rs[roomId], c, nickname, spawn)]
                  IN /\ rooms' = rs2
                     /\ joined' = sioJoin(joined, c, roomId)
                     /\ sdata' = [sdata EXCEPT ![c] = roomId]
                     /\ out' = <<Cb(c, TRUE, ""), roomsUpdate(rs2, Connected)>>
  /\ UNCHANGED <<impl, open, timers, overs, ncast, matchVars>>

joinRoom(c, roomId, nickname, spawn) ==
  /\ impl = "server" /\ open[c]
  /\ IF roomId = NoId \/ nickname = ""
     THEN /\ out' = <<Cb(c, FALSE, "Missing room or nickname")>>
          /\ UNCHANGED <<rooms, joined, sdata>>
     ELSE IF roomId \notin DOMAIN rooms
     THEN /\ out' = <<Cb(c, FALSE, "Room does not exist")>>
          /\ UNCHANGED <<rooms, joined, sdata>>
     ELSE IF ~roomHasSpace(rooms[roomId])
     THEN /\ out' = <<Cb(c, FALSE, "Room is full")>>
          /\ UNCHANGED <<rooms, joined, sdata>>
     ELSE LET rs2 == [rooms EXCEPT ![roomId] =
                        addOccupant(rooms[roomId], c, nickname, spawn)]
              j2 == sioJoin(joined, c, roomId)
          IN /\ rooms' = rs2
             /\ joined' = j2
             /\ sdata' = [sdata EXCEPT ![c] = roomId]
             /\ out' = (IF Len(rs2[roomId].players) = 2
                        THEN <<Emit("roomReady", j2[roomId])>> ELSE <<>>)
                       \o <<Cb(c, TRUE, ""), roomsUpdate(rs2, Connected)>>
  /\ UNCHANGED <<impl, open, timers, overs, ncast, matchVars>>

\* the assignments of enterGame that add socket c (?? and || keep old entries)
enterOccupant(room, c, nickname, spawn) ==
  [players |-> Append(room.players, c),
   nick    |-> MapSet(room.nick, c, IF nickname = "" THEN "Player-" ELSE nickname),
   score   |-> MapSet(room.score, c, MapGet(room.score, c, 0)),
   pos     |-> MapSet(room.pos, c, MapGet(room.pos, c, spawn)),
   next    |-> MapSet(room.next, c, Null),
   hp      |-> MapSet(room.hp, c, MapGet(room.hp, c, MAX_HP)),
   ready   |-> MapSet(room.ready, c, FALSE)]

enterGame(c, roomId, nickname, spawn) ==
  /\ impl = "server" /\ open[c]
  /\ LET rs == ensureRoom(rooms, roomId)
         room == rs[roomId]
         add == c \notin Range(room.players)
     IN IF add /\ ~roomHasSpace(room)
        THEN /\ out' = <<Cb(c, FALSE, "Room is full")>>
             /\ rooms' = rs
             /\ UNCHANGED <<joined, sdata>>
        ELSE LET rs2 == IF add
                        THEN [rs EXCEPT ![roomId] =
                                enterOccupant(room, c, nickname, spawn)]
                        ELSE rs
                 j2 == IF add THEN sioJoin(joined, c, roomId) ELSE joined
             IN /\ rooms' = rs2
                /\ joined' = j2
                /\ sdata' = IF add THEN [sdata EXCEPT ![c] = roomId] ELSE sdata
                /\ out' = <<Cb(c, TRUE, "")>>
                          \o (IF Len(rs2[roomId].players) = 2
                              THEN <<Emit("roomReady", j2[roomId])>> ELSE <<>>)
                          \o <<roomsUpdate(rs2, Connected)>>
  /\ UNCHANGED <<impl, open, timers, overs, ncast, matchVars>>

\* `delete rooms[roomId]`: the room object lives on only in the closures of
\* the timers armed for it, which no longer write to the registry
orphan(ts, roomId) ==
  [i \in 1..Len(ts) |->
     IF ts[i].roomId = roomId THEN [ts[i] EXCEPT !.live = FALSE] ELSE ts[i]]

\* the filter and the six deletes of the disconnect handler
removeOccupant(room, c) ==
  [players |-> Without(room.players, c),
   nick    |-> MapDel(room.nick, c),
   score   |-> MapDel(room.score, c),
   pos     |-> MapDel(room.pos, c),
   next    |-> MapDel(room.next, c),
   hp      |-> MapDel(room.hp, c),
   ready   |-> MapDel(room.ready, c)]

\* socket.io takes a closing socket out of every room it joined
sioLeaveAll(j, c) == [r \in DOMAIN j |-> j[r] \ {c}]

disconnect(c) ==
  /\ impl = "server" /\ open[c]
  /\ open' = [open EXCEPT ![c] = FALSE]
  /\ joined' = sioLeaveAll(joined, c)
  /\ LET roomId == sdata[c]
     IN IF roomId = NoId \/ roomId \notin DOMAIN rooms
        THEN /\ out' = <<>>
             /\ UNCHANGED <<rooms, timers, overs>>
        ELSE LET room == removeOccupant(rooms[roomId], c)
                 gone == Len(room.players) = 0
                 rs2 == IF gone
                        THEN [r \in (DOMAIN rooms) \ {roomId} |-> rooms[r]]
                        ELSE [rooms EXCEPT ![roomId] = room]
             IN /\ rooms' = rs2
                /\ timers' = IF gone THEN orphan(timers, roomId) ELSE timers
                /\ overs' = IF gone THEN [overs EXCEPT ![roomId] = -1] ELSE overs
                /\ out' = <<Emit("opponentLeft", joined'[roomId]),
                            roomsUpdate(rs2, Connected \ {c})>>
  /\ UNCHANGED <<impl, sdata, ncast, matchVars>>

\* a JavaScript truthiness test of room.state.ready[id]
isReady(room, id) == MapGet(room.ready, id, FALSE)

\* setReady's test that the countdown starts
bothReady(room) ==
  LET p == room.players
  IN Len(p) = 2 /\ isReady(room, p[1]) /\ isReady(room, p[2])

\* the setTimeout closure: it keeps the room object and the array p
newTimer(roomId, p) == [roomId |-> roomId, p |-> p, live |-> TRUE]

setReady(c) ==
  /\ impl = "server" /\ open[c]
  /\ LET roomId == sdata[c]
     IN IF roomId = NoId \/ roomId \notin DOMAIN rooms
        THEN /\ out' = <<>>
             /\ UNCHANGED <<rooms, timers>>
        ELSE LET room == [rooms[roomId] EXCEPT !.ready = MapSet(@, c, TRUE)]
             IN /\ rooms' = [rooms EXCEPT ![roomId] = room]
                /\ IF bothReady(room)
                   THEN /\ Len(timers) < MaxTimers
                        /\ timers' = Append(timers, newTimer(roomId, room.players))
                        /\ out' = <<broadcastRoom(roomId, "roundCountdown")>>
                   ELSE /\ timers' = timers
                        /\ out' = <<socketTo(c, roomId, "opponentReady")>>
  /\ UNCHANGED <<impl, open, sdata, joined, overs, ncast, matchVars>>

\* p.forEach(id => { hp[id] = 100; pos[id] = randomSpawn(); next[id] = null })
RECURSIVE resetEach(_, _, _)
resetEach(room, p, spawns) ==
  IF p = <<>> THEN room
  ELSE resetEach([room EXCEPT !.hp = MapSet(@, Head(p), MAX_HP),
                              !.pos = MapSet(@, Head(p), Head(spawns)),
                              !.next = MapSet(@, Head(p), Null)],
                 Tail(p), Tail(spawns))

\* the callback setReady armed, 3000 ms later; equal delays fire in arming order
roundStart(spawns) ==
  /\ impl = "server" /\ timers # <<>>
  /\ LET t == Head(timers)
     IN /\ timers' = Tail(timers)
        /\ rooms' = IF t.live
                    THEN [rooms EXCEPT ![t.roomId] = resetEach(@, t.p, spawns)]
                    ELSE rooms
        /\ overs' = [overs EXCEPT ![t.roomId] = 0]
        /\ out' = <<broadcastRoom(t.roomId, "roundStart")>>
  /\ UNCHANGED <<impl, open, sdata, joined, ncast, matchVars>>

moveStart(c, tile) ==
  /\ impl = "server" /\ open[c]
  /\ LET roomId == sdata[c]
     IN IF roomId = NoId \/ roomId \notin DOMAIN rooms
        THEN /\ out' = <<>>
             /\ UNCHANGED rooms
        ELSE /\ rooms' = [rooms EXCEPT ![roomId].next = MapSet(@, c, tile)]
             /\ out' = <<socketTo(c, roomId, "opponentMoveStart")>>
  /\ UNCHANGED <<impl, open, sdata, joined, timers, overs, ncast, matchVars>>

moveComplete(c, tile) ==
  /\ impl = "server" /\ open[c]
  /\ LET roomId == sdata[c]
     IN IF roomId = NoId \/ roomId \notin DOMAIN rooms
        THEN /\ out' = <<>>
             /\ UNCHANGED rooms
        ELSE /\ rooms' = [rooms EXCEPT ![roomId].pos = MapSet(@, c, tile),
                                       ![roomId].next = MapSet(@, c, Null)]
             /\ out' = <<socketTo(c, roomId, "opponentMoveComplete")>>
  /\ UNCHANGED <<impl, open, sdata, joined, timers, overs, ncast, matchVars>>

inGrid(t) == t[1] >= 0 /\ t[1] < GRID /\ t[2] >= 0 /\ t[2] < GRID

\* the cross pattern of "explo", cut to the grid
exploTargets(target) ==
  LET tx == target[1]
      ty == target[2]
  IN {t \in {<<tx, ty>>, <<tx, ty - 1>>, <<tx, ty + 1>>, <<tx - 1, ty>>,
             <<tx + 1, ty>>} : inGrid(t)}

standsOn_mut(room, pid, tiles) == MapGet(room.pos, pid, Null) \in tiles
\* pos or next of pid is one of the tiles
standsOn(room, pid, tiles) ==
  \/ MapGet(room.pos, pid, Null) \in tiles
  \/ MapGet(room.next, pid, Null) \in tiles

damage_mut(room, id, dmg) ==
  [room EXCEPT !.hp = MapSet(@, id, MapGet(room.hp, id, MAX_HP) - dmg)]
\* Math.max(0, (hp[id] ?? 100) - dmg)
damage(room, id, dmg) ==
  [room EXCEPT !.hp = MapSet(@, id, Max(0, MapGet(room.hp, id, MAX_HP) - dmg))]
\* Math.min(100, (hp[id] ?? 100) + amount)
heal(room, id, amount) ==
  [room EXCEPT !.hp = MapSet(@, id, Min(MAX_HP, MapGet(room.hp, id, MAX_HP) + amount))]

\* room.players.forEach(pid => ...) of the explo branch; st = [room, hit, hitTarget]
RECURSIVE exploEach(_, _, _)
exploEach(st, targets, ps) ==
  IF ps = <<>> THEN st
  ELSE LET pid == Head(ps)
       IN exploEach(IF standsOn(st.room, pid, targets)
                    THEN [room |-> damage(st.room, pid, EXPLO_DMG),
                          hit |-> TRUE, hitTarget |-> pid]
                    ELSE st,
                    targets, Tail(ps))

\* the single-target branch ("sd", "uh" and any other type)
singleTarget(room, me, opp, type, target) ==
  LET hitMe == MapGet(room.pos, me, Null) = target
      hitsOpp == opp # NoConn /\ standsOn(room, opp, {target})
      hit == hitMe \/ hitsOpp
      hitTarget == IF hitsOpp THEN opp ELSE IF hitMe THEN me ELSE NoConn
  IN [room |-> IF hit /\ hitTarget # NoConn
               THEN IF type = "sd" THEN damage(room, hitTarget, SD_DMG)
                    ELSE IF type = "uh" THEN heal(room, hitTarget, UH_HEAL)
                    ELSE room
               ELSE room,
      hit |-> hit, hitTarget |-> hitTarget]

\* room.state.hp[id] <= 0 (false for undefined)
hpGone(room, id) == id \in DOMAIN room.hp /\ room.hp[id] <= 0

\* the round-over test after a cast
roundIsOver(room) ==
  LET p == room.players
  IN Len(p) = 2 /\ (hpGone(room, p[1]) \/ hpGone(room, p[2]))

\* the round-over block: score the winner, clear both ready flags
roundOver(room) ==
  LET p == room.players
      winner == IF hpGone(room, p[1]) THEN p[2] ELSE p[1]
  IN [room EXCEPT !.score = MapSet(@, winner, MapGet(room.score, winner, 0) + 1),
                  !.ready = MapSet(MapSet(@, p[1], FALSE), p[2], FALSE)]
roundWinner(room) ==
  IF hpGone(room, room.players[1]) THEN room.players[2] ELSE room.players[1]

castRune(c, type, target) ==
  /\ impl = "server" /\ open[c]
  /\ LET roomId == sdata[c]
     IN IF roomId = NoId \/ roomId \notin DOMAIN rooms
        THEN /\ out' = <<>>
             /\ UNCHANGED <<rooms, overs, ncast>>
        ELSE LET room == rooms[roomId]
                 opp == opponentOf(room, c)
                 st == IF type = "explo"
                       THEN exploEach([room |-> room, hit |-> FALSE,
                                       hitTarget |-> NoConn],
                                      exploTargets(target), room.players)
                       ELSE singleTarget(room, c, opp, type, target)
                 resolved == [ev |-> "spellResolved", to |-> joined[roomId],
                              casterId |-> c, type |-> type, target |-> target,
                              hit |-> st.hit,
                              hitTargetId |-> IF st.hit THEN st.hitTarget ELSE NoConn]
                 over == roundIsOver(st.room)
             IN /\ ncast < MaxCasts
                /\ ncast' = ncast + 1
                /\ rooms' = [rooms EXCEPT ![roomId] =
                               IF over THEN roundOver(st.room) ELSE st.room]
                /\ overs' = IF over /\ overs[roomId] >= 0
                            THEN [overs EXCEPT ![roomId] = @ + 1] ELSE overs
                /\ out' = <<resolved>> \o
                          (IF over
                           THEN <<[ev |-> "roundOver", to |-> joined[roomId],
                                   winnerId |-> roundWinner(st.room)]>>
                           ELSE <<>>)
  /\ UNCHANGED <<impl, open, sdata, joined, timers, matchVars>>

\* ------------------------------------------- src/unnamed/part_001 (lobby)
\* the five assignments of part_001's createRoom and joinRoom
addOccupant_lobby(room, c, nickname) ==
  [room EXCEPT !.players = Append(@, c),
               !.nick = MapSet(@, c, nickname),
               !.score = MapSet(@, c, 0),
               !.hp = MapSet(@, c, MAX_HP),
               !.ready = MapSet(@, c, FALSE)]

\* io.emit("roomsUpdate", activeRooms) of broadcastRooms()
broadcastRooms(rs, conns) ==
  [ev |-> "roomsUpdate", to |-> conns,
   rooms |-> {id \in DOMAIN rs : Len(rs[id].players) > 0}]

createRoom_lobby(c, roomId, nickname) ==
  /\ impl = "lobby" /\ open[c]
  /\ IF roomId = NoId \/ nickname = ""
     THEN /\ out' = <<Cb(c, FALSE, "Missing room or nickname")>>
          /\ UNCHANGED <<rooms, joined, sdata>>
     ELSE LET rs == ensureRoom(rooms, roomId)
          IN IF roomTaken(rs[roomId])
             THEN /\ out' = <<Cb(c, FALSE, "Room ID already taken")>>
                  /\ rooms' = rs
                  /\ UNCHANGED <<joined, sdata>>
             ELSE LET rs2 == [rs EXCEPT ![roomId] =
                                addOccupant_lobby(rs[roomId], c, nickname)]
                  IN /\ rooms' = rs2
                     /\ joined' = sioJoin(joined, c, roomId)
                     /\ sdata' = [sdata EXCEPT ![c] = roomId]
                     /\ out' = <<Cb(c, TRUE, ""), broadcastRooms(rs2, Connected)>>
  /\ UNCHANGED <<impl, open, timers, overs, ncast, matchVars>>

joinRoom_lobby(c, roomId, nickname) ==
  /\ impl = "lobby" /\ open[c]
  /\ IF roomId \notin DOMAIN rooms
     THEN /\ out' = <<Cb(c, FALSE, "Room does not exist")>>
          /\ UNCHANGED <<rooms, joined, sdata>>
     ELSE IF Len(rooms[roomId].players) >= CAPACITY
     THEN /\ out' = <<Cb(c, FALSE, "Room is full")>>
          /\ UNCHANGED <<rooms, joined, sdata>>
     ELSE LET rs2 == [rooms EXCEPT ![roomId] =
                        addOccupant_lobby(rooms[roomId], c, nickname)]
              j2 == sioJoin(joined, c, roomId)
          IN /\ rooms' = rs2
             /\ joined' = j2
             /\ sdata' = [sdata EXCEPT ![c] = roomId]
             /\ out' = (IF Len(rs2[roomId].players) = 2
                        THEN <<Emit("roomReady", j2[roomId])>> ELSE <<>>)
                       \o <<Cb(c, TRUE, ""), broadcastRooms(rs2, Connected)>>
  /\ UNCHANGED <<impl, open, timers, overs, ncast, matchVars>>

\* the filter and the four deletes of part_001's disconnect handler
removeOccupant_lobby(room, c) ==
  [room EXCEPT !.players = Without(@, c),
               !.nick = MapDel(@, c),
               !.score = MapDel(@, c),
               !.hp = MapDel(@, c),
               !.ready = MapDel(@, c)]

disconnect_lobby(c) ==
  /\ impl = "lobby" /\ open[c]
  /\ open' = [open EXCEPT ![c] = FALSE]
  /\ joined' = sioLeaveAll(joined, c)
  /\ LET roomId == sdata[c]
     IN IF roomId = NoId \/ roomId \notin DOMAIN rooms
        THEN /\ out' = <<>>
             /\ UNCHANGED rooms
        ELSE LET room == removeOccupant_lobby(rooms[roomId], c)
                 rs2 == IF Len(room.players) = 0
                        THEN [r \in (DOMAIN rooms) \ {roomId} |-> rooms[r]]
                        ELSE [rooms EXCEPT ![roomId] = room]
             IN /\ rooms' = rs2
                /\ out' = <<Emit("opponentLeft", joined'[roomId]),
                            broadcastRooms(rs2, Connected \ {c})>>
  /\ UNCHANGED <<impl, sdata, timers, overs, ncast, matchVars>>

\* ---------------------------------------- src/unnamed/part_000 (best of N)
\* part_000's constants
BOARD == 32
WIN_THRESHOLD == 2
COUNT_FROM == 3

\* Of a player record the model keeps x, y (pos), hp and whether lastShootAt
\* was set since the last reset (shot); maxHP is always 100, `ready` and
\* movingUntil are never read, and the move handler is not modelled.
\* `order` is the insertion order of the keys of `players`, which
\* Object.keys and Object.values follow.  The array playerOrder is written
\* and never read; its first occurrences are `order`.
makeEmptyRoom ==
  [players |-> EmptyMap, order |-> <<>>, ready |-> EmptyMap, match |-> Null]

createMatchState_mut == [roundWins |-> EmptyMap, currentRound |-> 0, inRound |-> TRUE]
createMatchState == [roundWins |-> EmptyMap, currentRound |-> 0, inRound |-> FALSE]

newPlayer(spawn) == [pos |-> spawn, hp |-> MAX_HP, shot |-> FALSE]

\* Object.keys(room.players)
playerKeys(room) == room.order

\* uuidv4().slice(0,8): an id no room ever had
create_room(c) ==
  /\ impl = "match" /\ open[c]
  /\ uuids < NRooms
  /\ uuids' = uuids + 1
  /\ mrooms' = MapSet(mrooms, uuids + 1, makeEmptyRoom)
  /\ out' = <<[ev |-> "room_created", to |-> {c}, roomId |-> uuids + 1]>>
  /\ UNCHANGED <<impl, open, sdata, joined, overs, ncast, srvVars, mtimers>>

roomFull(room) == Cardinality(DOMAIN room.players) >= CAPACITY

\* the room after join_room added (or replaced) the player of socket c
joinedRoom(room, c, spawn) ==
  LET r1 == [room EXCEPT !.players = MapSet(@, c, newPlayer(spawn)),
                         !.order = IF c \in DOMAIN room.players THEN @
                                   ELSE Append(@, c),
                         !.ready = MapSet(@, c, FALSE)]
  IN IF r1.match = Null
     THEN [r1 EXCEPT !.match =
             [createMatchState EXCEPT !.roundWins = [id \in DOMAIN r1.players |-> 0]]]
     ELSE r1

join_room(c, roomId, spawn) ==
  /\ impl = "match" /\ open[c]
  /\ IF roomId \notin DOMAIN mrooms
     THEN /\ out' = <<[ev |-> "join_error", to |-> {c}, message |-> "Room not found"]>>
          /\ UNCHANGED <<mrooms, joined, sdata>>
     ELSE IF roomFull(mrooms[roomId])
     THEN /\ out' = <<[ev |-> "join_error", to |-> {c}, message |-> "Room full"]>>
          /\ UNCHANGED <<mrooms, joined, sdata>>
     ELSE /\ mrooms' = [mrooms EXCEPT ![roomId] = joinedRoom(@, c, spawn)]
          /\ joined' = sioJoin(joined, c, roomId)
          /\ sdata' = [sdata EXCEPT ![c] = roomId]
          /\ out' = <<Emit("room_update", joined'[roomId])>>
  /\ UNCHANGED <<impl, open, overs, ncast, srvVars, mtimers, uuids>>

\* Object.values(room.ready).every(Boolean)
everyReady(room) == \A id \in DOMAIN room.ready : room.ready[id]

\* set_ready's test that the countdown starts
wantsCountdown(room) ==
  /\ Cardinality(DOMAIN room.players) = 2
  /\ everyReady(room)
  /\ ~room.match.inRound

\* startRoundCountdown(roomId) on the registry rs: [rooms, timers, out]
startRoundCountdown(rs, ts, roomId) ==
  IF roomId \notin DOMAIN rs
  THEN [rooms |-> rs, timers |-> ts, out |-> <<>>]
  ELSE [rooms |-> [rs EXCEPT ![roomId].match.inRound = FALSE],
        timers |-> Append(ts, [kind |-> "interval", roomId |-> roomId,
                               count |-> COUNT_FROM]),
        out |-> <<[ev |-> "countdown", to |-> joined[roomId], count |-> COUNT_FROM]>>]

set_ready(c, ready) ==
  /\ impl = "match" /\ open[c]
  /\ IF sdata[c] \notin DOMAIN mrooms
     THEN /\ out' = <<>>
          /\ UNCHANGED <<mrooms, mtimers>>
     ELSE LET roomId == sdata[c]
              rs == [mrooms EXCEPT ![roomId].ready = MapSet(@, c, ready)]
              update == Emit("room_update", joined[roomId])
          IN IF wantsCountdown(rs[roomId])
             THEN LET r == startRoundCountdown(rs, mtimers, roomId)
                  IN /\ Len(mtimers) < MaxTimers
                     /\ mrooms' = r.rooms
                     /\ mtimers' = r.timers
                     /\ out' = <<update>> \o r.out
             ELSE /\ mrooms' = rs
                  /\ mtimers' = mtimers
                  /\ out' = <<update>>
  /\ UNCHANGED <<impl, open, sdata, joined, overs, ncast, srvVars, uuids>>

\* the sequence without its i-th element
DropAt(s, i) == [k \in 1..(Len(s) - 1) |-> IF k < i THEN s[k] ELSE s[k + 1]]

\* for (const id of Object.keys(room.players)) { reset position, hp, lastShootAt }
resetPlayers(room, spawnOf) ==
  [room EXCEPT !.players =
     [id \in DOMAIN room.players |-> [pos |-> spawnOf[id], hp |-> MAX_HP, shot |-> FALSE]]]

\* startRound(roomId) on the registry rs: [rooms, out, started]
startRound(rs, roomId, spawnOf) ==
  IF roomId \notin DOMAIN rs
  THEN [rooms |-> rs, out |-> <<>>, started |-> FALSE]
  ELSE [rooms |-> [rs EXCEPT ![roomId] =
                     resetPlayers([@ EXCEPT !.match.inRound = TRUE,
                                            !.match.currentRound = @ + 1], spawnOf)],
        out |-> <<Emit("round_started", joined[roomId])>>,
        started |-> TRUE]

\* one firing of the setInterval callback of startRoundCountdown
countdownTick(i, spawnOf) ==
  /\ impl = "match"
  /\ i \in 1..Len(mtimers)
  /\ mtimers[i].kind = "interval"
  /\ LET t == mtimers[i]
         count == t.count - 1
     IN IF count > 0
        THEN /\ mtimers' = [mtimers EXCEPT ![i].count = count]
             /\ out' = <<[ev |-> "countdown", to |-> joined[t.roomId], count |-> count]>>
             /\ UNCHANGED <<mrooms, overs>>
        ELSE LET r == startRound(mrooms, t.roomId, spawnOf)
             IN /\ mtimers' = DropAt(mtimers, i)
                /\ mrooms' = r.rooms
                /\ overs' = IF r.started THEN [overs EXCEPT ![t.roomId] = 0] ELSE overs
                /\ out' = <<[ev |-> "countdown", to |-> joined[t.roomId], count |-> 0]>>
                          \o r.out
  /\ UNCHANGED <<impl, open, sdata, joined, ncast, srvVars, uuids>>

\* the setTimeout callback of handleRoundEnd, 1500 ms after a round ended
nextRoundTimeout(i) ==
  /\ impl = "match"
  /\ i \in 1..Len(mtimers)
  /\ mtimers[i].kind = "timeout"
  /\ LET r == startRoundCountdown(mrooms, DropAt(mtimers, i), mtimers[i].roomId)
     IN /\ mrooms' = r.rooms
        /\ mtimers' = r.timers
        /\ out' = r.out
  /\ UNCHANGED <<impl, open, sdata, joined, overs, ncast, srvVars, uuids>>

\* the effect of a rune on the players standing on the target tile
RECURSIVE hitVictims(_, _, _, _)
hitVictims(players, me, rune, victims) ==
  IF victims = <<>> THEN players
  ELSE LET v == Head(victims)
           next == IF rune = "SD"
                   THEN [players EXCEPT ![v].hp = Max(0, @ - (4 * MAX_HP) \div 10)]
                   ELSE IF rune = "UH"
                   THEN [players EXCEPT ![me].hp = Min(MAX_HP, @ + (4 * MAX_HP) \div 10)]
                   ELSE players
       IN hitVictims(next, me, rune, Tail(victims))

\* the first player, in key order, whose hp is 0 or less (NoConn when none)
firstDead(room) ==
  LET ks == playerKeys(room)
      dead == {i \in 1..Len(ks) : room.players[ks[i]].hp <= 0}
  IN IF dead = {} THEN NoConn ELSE ks[CHOOSE i \in dead : \A j \in dead : i <= j]

\* handleRoundEnd(roomId, attackerId, victimId): [rooms, timers, out, ended]
handleRoundEnd(rs, ts, roomId, attackerId, victimId) ==
  LET room == rs[roomId]
      winnerId == IF attackerId = victimId THEN NoConn ELSE attackerId
      wins == IF winnerId # NoConn
              THEN MapSet(room.match.roundWins, winnerId,
                          MapGet(room.match.roundWins, winnerId, 0) + 1)
              ELSE room.match.roundWins
      ended == [ev |-> "round_ended", to |-> joined[roomId], winnerId |-> winnerId]
      winners == {id \in DOMAIN wins : wins[id] >= WIN_THRESHOLD}
  IN IF winners # {}
     THEN [rooms |-> [rs EXCEPT ![roomId].match = createMatchState,
                                ![roomId].ready = [id \in DOMAIN room.players |-> FALSE]],
           timers |-> ts,
           out |-> <<ended, [ev |-> "match_ended", to |-> joined[roomId],
                             winnerId |-> CHOOSE id \in winners : TRUE]>>]
     ELSE [rooms |-> [rs EXCEPT ![roomId].match.roundWins = wins,
                                ![roomId].match.inRound = FALSE],
           timers |-> Append(ts, [kind |-> "timeout", roomId |-> roomId]),
           out |-> <<ended>>]

\* shoot's validation of the target tile
onBoard(t) == ~(t[1] < 0 \/ t[2] < 0 \/ t[1] >= BOARD \/ t[2] >= BOARD)

\* elapsed: 1000 ms have passed since the socket's last shot
shoot(c, target, rune, elapsed) ==
  /\ impl = "match" /\ open[c]
  /\ IF sdata[c] \notin DOMAIN mrooms
     THEN /\ out' = <<>>
          /\ UNCHANGED <<mrooms, mtimers, overs, ncast>>
     ELSE LET roomId == sdata[c]
              room == mrooms[roomId]
          IN IF c \notin DOMAIN room.players \/ (room.players[c].shot /\ ~elapsed)
             THEN /\ out' = <<>>
                  /\ UNCHANGED <<mrooms, mtimers, overs, ncast>>
             ELSE LET r1 == [room EXCEPT !.players[c].shot = TRUE]
                  IN /\ ncast < MaxCasts
                     /\ ncast' = ncast + 1
                     /\ IF ~onBoard(target)
                        THEN /\ mrooms' = [mrooms EXCEPT ![roomId] = r1]
                             /\ out' = <<>>
                             /\ UNCHANGED <<mtimers, overs>>
                        ELSE LET victims == SelectSeq(playerKeys(r1),
                                              LAMBDA id : r1.players[id].pos = target)
                                 r2 == [r1 EXCEPT !.players =
                                          hitVictims(@, c, rune, victims)]
                                 rs2 == [mrooms EXCEPT ![roomId] = r2]
                                 fired == <<[ev |-> "rune_fired", to |-> joined[roomId],
                                             from |-> c, target |-> target, rune |-> rune],
                                            Emit("hp_update", joined[roomId])>>
                                 dead == firstDead(r2)
                             IN IF dead = NoConn
                                THEN /\ mrooms' = rs2
                                     /\ out' = fired
                                     /\ UNCHANGED <<mtimers, overs>>
                                ELSE LET e == handleRoundEnd(rs2, mtimers, roomId, c, dead)
                                     IN /\ Len(e.timers) <= MaxTimers
                                        /\ mrooms' = e.rooms
                                        /\ mtimers' = e.timers
                                        /\ out' = fired \o e.out
                                        /\ overs' = IF overs[roomId] >= 0
                                                    THEN [overs EXCEPT ![roomId] = @ + 1]
                                                    ELSE overs
  /\ UNCHANGED <<impl, open, sdata, joined, srvVars, uuids>>

disconnect_match(c) ==
  /\ impl = "match" /\ open[c]
  /\ open' = [open EXCEPT ![c] = FALSE]
  /\ joined' = sioLeaveAll(joined, c)
  /\ IF sdata[c] = NoId \/ sdata[c] \notin DOMAIN mrooms
     THEN /\ out' = <<>>
          /\ UNCHANGED <<mrooms, overs>>
     ELSE LET roomId == sdata[c]
              room == [mrooms[roomId] EXCEPT !.players = MapDel(@, c),
                                             !.order = Without(@, c),
                                             !.ready = MapDel(@, c)]
              gone == DOMAIN room.players = {}
          IN /\ mrooms' = IF gone THEN MapDel(mrooms, roomId)
                          ELSE [mrooms EXCEPT ![roomId] = room]
             /\ overs' = IF gone THEN [overs EXCEPT ![roomId] = -1] ELSE overs
             /\ out' = <<Emit("room_update", joined'[roomId])>>
  /\ UNCHANGED <<impl, sdata, ncast, srvVars, mtimers, uuids>>

\* ---------------------------------------------------------- specifications
\* the state after the program `i` has started and NConns sockets connected
Started(i) ==
  /\ impl = i
  /\ open = [c \in Conns |-> TRUE]
  /\ sdata = [c \in Conns |-> NoId]
  /\ rooms = [r \in {} |-> EmptyRoom]
  /\ joined = [r \in LobbyIds |-> {}]
  /\ timers = <<>>
  /\ overs = [r \in LobbyIds |-> -1]
  /\ ncast = 0
  /\ out = <<>>
  /\ mrooms = [r \in {} |-> 0]
  /\ mtimers = <<>>
  /\ uuids = 0

InitServer == Started("server")
InitLobby == Started("server") \/ Started("lobby") \/ Started("match")
InitMatch == Started("match")

\* the lobby of server.js and of part_001: every id, one spawn tile
NextLobby ==
  \/ \E c \in Conns, roomId \in LobbyIds, nickname \in Nicknames, spawn \in SpawnTiles :
       createRoom(c, roomId, nickname, spawn)
  \/ \E c \in Conns, roomId \in LobbyIds, nickname \in Nicknames, spawn \in SpawnTiles :
       joinRoom(c, roomId, nickname, spawn)
  \/ \E c \in Conns, roomId \in RoomIds, spawn \in SpawnTiles :
       enterGame(c, roomId, "Ann", spawn)
  \/ \E c \in Conns : disconnect(c)
  \/ \E c \in Conns, roomId \in LobbyIds, nickname \in Nicknames :
       createRoom_lobby(c, roomId, nickname)
  \/ \E c \in Conns, roomId \in LobbyIds, nickname \in Nicknames :
       joinRoom_lobby(c, roomId, nickname)
  \/ \E c \in Conns : disconnect_lobby(c)
  \/ \E c \in Conns : create_room(c)
  \/ \E c \in Conns, roomId \in LobbyIds, spawn \in SpawnTiles :
       join_room(c, roomId, spawn)
  \/ \E c \in Conns : disconnect_match(c)

SpecLobby == InitLobby /\ [][NextLobby]_vars

\* the room lifecycle and the round scheduler of server.js, in the rooms of
\* GameIds: no moves and no casts
Next ==
  \/ \E c \in Conns, roomId \in GameIds, spawn \in SpawnTiles :
       createRoom(c, roomId, "Ann", spawn)
  \/ \E c \in Conns, roomId \in GameIds, spawn \in SpawnTiles :
       joinRoom(c, roomId, "Ann", spawn)
  \/ \E c \in Conns, roomId \in GameIds, spawn \in SpawnTiles :
       enterGame(c, roomId, "Ann", spawn)
  \/ \E c \in Conns : disconnect(c)
  \/ \E c \in Conns : setReady(c)
  \/ \E s1 \in SpawnTiles, s2 \in SpawnTiles : roundStart(<<s1, s2>>)

Spec == InitServer /\ [][Next]_vars

\* the duel of server.js: DuelConns in the rooms of GameIds, with casts and
\* no moves
NextDuel ==
  \/ \E c \in DuelConns, roomId \in GameIds, spawn \in SpawnTiles :
       createRoom(c, roomId, "Ann", spawn)
  \/ \E c \in DuelConns, roomId \in GameIds, spawn \in SpawnTiles :
       joinRoom(c, roomId, "Ann", spawn)
  \/ \E c \in DuelConns : disconnect(c)
  \/ \E c \in DuelConns : setReady(c)
  \/ \E s1 \in SpawnTiles, s2 \in SpawnTiles : roundStart(<<s1, s2>>)
  \/ \E c \in DuelConns, type \in RuneTypes, target \in Tiles : castRune(c, type, target)

SpecDuel == InitServer /\ [][NextDuel]_vars

\* the match of part_000: DuelConns in the rooms create_room made
NextMatch ==
  \/ \E c \in DuelConns : uuids < NGameRooms /\ create_room(c)
  \/ \E c \in DuelConns, roomId \in GameIds, spawn \in SpawnTiles :
       join_room(c, roomId, spawn)
  \/ \E c \in DuelConns, ready \in BOOLEAN : set_ready(c, ready)
  \/ \E i \in 1..MaxTimers, spawn \in Tiles :
       countdownTick(i, [c \in Conns |-> IF c = 1 THEN spawn ELSE <<0, 0>>])
  \/ \E i \in 1..MaxTimers : nextRoundTimeout(i)
  \/ \E c \in DuelConns, target \in Tiles, rune \in {"SD", "UH"}, elapsed \in BOOLEAN :
       shoot(c, target, rune, elapsed)
  \/ \E c \in DuelConns : disconnect_match(c)

SpecMatch == InitMatch /\ [][NextMatch]_vars

\* aiming in server.js: DuelConns in the rooms of GameIds move over AimTiles and
\* cast at them; no disconnect and no round scheduler
NextAim ==
  \/ \E c \in DuelConns, roomId \in GameIds, spawn \in SpawnTiles :
       createRoom(c, roomId, "Ann", spawn)
  \/ \E c \in DuelConns, roomId \in GameIds, spawn \in SpawnTiles :
       joinRoom(c, roomId, "Ann", spawn)
  \/ \E c \in DuelConns, tile \in StartTiles : moveStart(c, tile)
  \/ \E c \in DuelConns, tile \in AimTiles : moveComplete(c, tile)
  \/ \E c \in DuelConns, type \in RuneTypes, target \in AimTiles :
       ncast < MaxAimCasts /\ castRune(c, type, target)

SpecAim == InitServer /\ [][NextAim]_vars

\* a rejoin during the countdown of server.js: the lifecycle of Spec, and
\* moveStart over StepTiles
NextRejoin ==
  \/ \E c \in Conns, roomId \in GameIds, spawn \in SpawnTiles :
       createRoom(c, roomId, "Ann", spawn)
  \/ \E c \in Conns, roomId \in GameIds, spawn \in SpawnTiles :
       joinRoom(c, roomId, "Ann", spawn)
  \/ \E c \in Conns : disconnect(c)
  \/ \E c \in Conns : setReady(c)
  \/ \E s1 \in SpawnTiles, s2 \in SpawnTiles : roundStart(<<s1, s2>>)
  \/ \E c \in Conns, tile \in StepTiles : moveStart(c, tile)

SpecRejoin == InitServer /\ [][NextRejoin]_vars

\* readiness in part_000: Conns in the room create_room made, where clients
\* never withdraw their readiness and never shoot; the interval callbacks of
\* node's timers keep firing
NextReady ==
  \/ \E c \in Conns : uuids < NGameRooms /\ create_room(c)
  \/ \E c \in Conns, roomId \in GameIds, spawn \in SpawnTiles :
       join_room(c, roomId, spawn)
  \/ \E c \in Conns : set_ready(c, TRUE)
  \/ \E i \in 1..MaxTimers, spawn \in SpawnTiles :
       countdownTick(i, [c \in Conns |-> spawn])
  \/ \E c \in Conns : disconnect_match(c)

TimersFire ==
  \E i \in 1..MaxTimers, spawn \in SpawnTiles :
    countdownTick(i, [c \in Conns |-> spawn])

SpecReady == InitMatch /\ [][NextReady]_vars /\ WF_vars(TimersFire)

\* the lifecycle of server.js (Next), where node's timers keep firing
TimeoutsFire == \E s1 \in SpawnTiles, s2 \in SpawnTiles : roundStart(<<s1, s2>>)

SpecLive == InitServer /\ [][Next]_vars /\ WF_vars(TimeoutsFire)

\* ------------------------------------------------------------------ claims
Occupants(room) == Range(room.players)
IsFailure(o, c) == Len(o) = 1 /\ o[1].ev = "cb" /\ o[1].to = {c} /\ ~o[1].success

\* C1 (SpecLobby): no room ever holds more than 2 occupants, and a joinRoom
\* (or an enterGame by a non-member, or part_000's join_room) on a room that
\* has 2 occupants fails and adds nobody; the failure of a well-formed
\* joinRoom reads 'Room is full' (part_000 words its join_error 'Room full').
C1_JoinFullFails ==
  /\ \A c \in Conns, roomId \in LobbyIds, nickname \in Nicknames, spawn \in SpawnTiles :
       /\ roomId \in DOMAIN rooms
       /\ Len(rooms[roomId].players) = 2
       /\ \/ joinRoom(c, roomId, nickname, spawn)
          \/ joinRoom_lobby(c, roomId, nickname)
          \/ c \notin Occupants(rooms[roomId]) /\ enterGame(c, roomId, nickname, spawn)
       => /\ IsFailure(out', c)
          /\ rooms' = rooms /\ sdata' = sdata /\ joined' = joined
          /\ (nickname # "" \/ impl = "lobby") => out'[1].message = "Room is full"
  /\ \A c \in Conns, roomId \in LobbyIds, spawn \in SpawnTiles :
       /\ roomId \in DOMAIN mrooms
       /\ Cardinality(DOMAIN mrooms[roomId].players) = 2
       /\ join_room(c, roomId, spawn)
       => /\ out' = <<[ev |-> "join_error", to |-> {c}, message |-> "Room full"]>>
          /\ mrooms' = mrooms /\ sdata' = sdata /\ joined' = joined
C1_AtMostTwo ==
  /\ [](\A r \in DOMAIN rooms : Len(rooms[r].players) <= 2)
  /\ [](\A r \in DOMAIN mrooms : Cardinality(DOMAIN mrooms[r].players) <= 2)
  /\ [][C1_JoinFullFails]_vars
\* a third connection was just refused by a room of two others
C1_Witness ==
  \E c \in Conns, r \in DOMAIN rooms :
    /\ out = <<Cb(c, FALSE, "Room is full")>>
    /\ Cardinality(Occupants(rooms[r])) = 2
    /\ c \notin Occupants(rooms[r])

\* C2 (SpecLobby): createRoom with a non-empty id and nickname fails with
\* 'Room ID already taken' and changes nothing when the id has an occupant,
\* and otherwise succeeds and leaves the caller the sole occupant.
C2_CreateStep ==
  \A c \in Conns, roomId \in RoomIds, spawn \in SpawnTiles :
    (createRoom(c, roomId, "Ann", spawn) \/ createRoom_lobby(c, roomId, "Ann"))
    => IF roomId \in DOMAIN rooms /\ Len(rooms[roomId].players) >= 1
       THEN /\ out' = <<Cb(c, FALSE, "Room ID already taken")>>
            /\ rooms' = rooms /\ sdata' = sdata /\ joined' = joined
       ELSE /\ out'[1] = Cb(c, TRUE, "")
            /\ rooms'[roomId].players = <<c>>
            /\ sdata'[c] = roomId
C2_CreateRoom == [][C2_CreateStep]_vars
\* a createRoom was just refused although a connection has already left, and
\* another id was created anew after its occupants left
C2_Witness ==
  \E c \in Conns, d \in Conns, r \in DOMAIN rooms :
    /\ out = <<Cb(c, FALSE, "Room ID already taken")>>
    /\ ~open[d]
    /\ \A x \in Occupants(rooms[r]) : open[x]

\* C3 (SpecLobby): a connection occupies at most one room, once, and a
\* createRoom or joinRoom by a connection already bound to a room is
\* rejected and changes no room and no binding.
C3_RebindStep ==
  \A c \in Conns, roomId \in LobbyIds, nickname \in Nicknames, spawn \in SpawnTiles :
    /\ sdata[c] # NoId
    /\ \/ createRoom(c, roomId, nickname, spawn)
       \/ joinRoom(c, roomId, nickname, spawn)
       \/ createRoom_lobby(c, roomId, nickname)
       \/ joinRoom_lobby(c, roomId, nickname)
    => /\ IsFailure(out', c)
       /\ rooms' = rooms /\ sdata' = sdata
C3_OneRoomPerConnection ==
  /\ [](\A c \in Conns :
          /\ Cardinality({r \in DOMAIN rooms : c \in Occupants(rooms[r])}) <= 1
          /\ \A r \in DOMAIN rooms :
               Cardinality({i \in 1..Len(rooms[r].players) : rooms[r].players[i] = c}) <= 1)
  /\ [][C3_RebindStep]_vars

\* C4 (Spec): in every room the key sets of nick, score, pos, next, hp and
\* ready are each exactly the set of ids in players.
C4_KeysArePlayers ==
  \A r \in DOMAIN rooms :
    LET room == rooms[r]
    IN /\ DOMAIN room.nick = Occupants(room)
       /\ DOMAIN room.score = Occupants(room)
       /\ DOMAIN room.pos = Occupants(room)
       /\ DOMAIN room.next = Occupants(room)
       /\ DOMAIN room.hp = Occupants(room)
       /\ DOMAIN room.ready = Occupants(room)

\* C5 (SpecLobby): when one of the 2 distinct occupants of a room disconnects,
\* the room is left with exactly the other connection, which gets exactly one
\* opponentLeft and keeps its score.
C5_DisconnectStep ==
  \A c \in Conns, r \in DOMAIN rooms :
    /\ Len(rooms[r].players) = 2
    /\ Cardinality(Occupants(rooms[r])) = 2
    /\ c \in Occupants(rooms[r])
    /\ (disconnect(c) \/ disconnect_lobby(c))
    => /\ r \in DOMAIN rooms'
       /\ \E d \in Conns \ {c} :
            /\ rooms'[r].players = <<d>>
            /\ d \in Occupants(rooms[r])
            /\ rooms'[r].score[d] = rooms[r].score[d]
            /\ Len(SelectSeq(out', LAMBDA e : e.ev = "opponentLeft" /\ d \in e.to)) = 1
C5_DisconnectLeavesOne == [][C5_DisconnectStep]_vars

\* C6 (SpecLobby): once every connection that ever occupied room id R has
\* disconnected, R is absent from the registry (so createRoom(R) succeeds).
\* Occupants leave a room only by disconnecting, so R's past occupants are
\* its present ones and closed connections.
C6_EmptyRoomsAreRemoved ==
  \A r \in DOMAIN rooms : \E c \in Occupants(rooms[r]) : open[c]

\* C7 (Spec): a round-start timer armed for two distinct occupants that fires
\* after its room was destroyed, or when the room no longer has those two
\* occupants, changes no room and broadcasts nothing.
C7_StaleStep ==
  \A s1 \in SpawnTiles, s2 \in SpawnTiles :
    /\ timers # <<>>
    /\ Cardinality(Range(Head(timers).p)) = 2
    /\ \/ ~Head(timers).live
       \/ Head(timers).roomId \notin DOMAIN rooms
       \/ rooms[Head(timers).roomId].players # Head(timers).p
    /\ roundStart(<<s1, s2>>)
    => rooms' = rooms /\ out' = <<>>
C7_StaleTimerIsNoOp == [][C7_StaleStep]_vars

\* C8 (Spec): while a room of two distinct occupants is in a round (a
\* roundStart was broadcast and no roundOver since), a setReady of one of them
\* neither broadcasts a countdown nor arms a round-start timer.
C8_ReadyStep ==
  \A c \in Conns :
    /\ sdata[c] \in DOMAIN rooms
    /\ Cardinality(Occupants(rooms[sdata[c]])) = 2
    /\ c \in Occupants(rooms[sdata[c]])
    /\ overs[sdata[c]] = 0
    /\ setReady(c)
    => /\ timers' = timers
       /\ \A i \in 1..Len(out') : out'[i].ev # "roundCountdown"
C8_NoCountdownInRound == [][C8_ReadyStep]_vars

\* C9 (SpecMatch): right after a shot that brings a player's hp from above 0
\* to 0 or less in a room of 2 players, both ready flags are false and that
\* player's hp is exactly 0.
C9_ShootStep ==
  \A c \in Conns, target \in Tiles, rune \in {"SD", "UH"}, elapsed \in BOOLEAN :
    /\ sdata[c] \in DOMAIN mrooms
    /\ Cardinality(DOMAIN mrooms[sdata[c]].players) = 2
    /\ shoot(c, target, rune, elapsed)
    => \A v \in DOMAIN mrooms[sdata[c]].players :
         /\ mrooms[sdata[c]].players[v].hp > 0
         /\ mrooms'[sdata[c]].players[v].hp <= 0
         => /\ mrooms'[sdata[c]].players[v].hp = 0
            /\ \A id \in DOMAIN mrooms'[sdata[c]].ready : ~mrooms'[sdata[c]].ready[id]
C9_ReadyClearedAtRoundEnd == [][C9_ShootStep]_vars

\* C9, server.js (SpecDuel): right after a castRune that brings an occupant's
\* hp from above 0 to 0 or less in a room of 2, both ready flags are false and
\* that hp is exactly 0.
C9_CastStep ==
  \A c \in Conns, type \in RuneTypes, target \in Tiles :
    /\ sdata[c] \in DOMAIN rooms
    /\ Len(rooms[sdata[c]].players) = 2
    /\ castRune(c, type, target)
    => \A v \in Occupants(rooms[sdata[c]]) :
         /\ MapGet(rooms[sdata[c]].hp, v, MAX_HP) > 0
         /\ hpGone(rooms'[sdata[c]], v)
         => /\ rooms'[sdata[c]].hp[v] = 0
            /\ \A id \in Occupants(rooms[sdata[c]]) : ~isReady(rooms'[sdata[c]], id)
C9_ServerClearsReady == [][C9_CastStep]_vars

\* C10 (SpecDuel): in a room of two distinct occupants, between one roundStart
\* and the next at most one roundOver is broadcast (and the scores grow by at
\* most 1), however many casts follow an occupant's hp reaching 0.
C10_RoundEndsOnce ==
  \A r \in DOMAIN rooms :
    Cardinality(Occupants(rooms[r])) = 2 =>
      /\ overs[r] <= 1
      /\ overs[r] >= 0 =>
           \A id \in DOMAIN rooms[r].score : rooms[r].score[id] <= 1

\* C10, part_000 (SpecMatch): between one round_started and the next, at most
\* one round_ended is broadcast.
C10_MatchRoundEndsOnce == \A r \in DOMAIN mrooms : overs[r] <= 1

\* the spellResolved events among the emitted events o
Resolved(o) == SelectSeq(o, LAMBDA e : e.ev = "spellResolved")

\* C11 (SpecAim): when next of the caster's opponent is the tile t (a
\* moveStart(t) with no later moveComplete), an "sd" cast at t hits the
\* opponent and lowers its hp by SD_DMG, clamped at 0, wherever its pos is.
C11_AimStep ==
  \A c \in Conns, t \in AimTiles :
    /\ sdata[c] \in DOMAIN rooms
    /\ opponentOf(rooms[sdata[c]], c) # NoConn
    /\ MapGet(rooms[sdata[c]].next, opponentOf(rooms[sdata[c]], c), Null) = t
    /\ castRune(c, "sd", t)
    => LET room == rooms[sdata[c]]
           opp == opponentOf(room, c)
       IN /\ rooms'[sdata[c]].hp[opp] = Max(0, room.hp[opp] - SD_DMG)
          /\ out'[1].ev = "spellResolved"
          /\ out'[1].hit /\ out'[1].hitTargetId = opp
C11_AnticipatedPositionIsHit == [][C11_AimStep]_vars
\* an "sd" cast has just hit an occupant on the tile it is moving to, not the
\* one it stands on
C11_Witness ==
  \E r \in DOMAIN rooms :
    /\ out # <<>> /\ out[1].ev = "spellResolved" /\ out[1].type = "sd"
    /\ out[1].hit /\ out[1].hitTargetId # out[1].casterId
    /\ out[1].hitTargetId \in Occupants(rooms[r])
    /\ rooms[r].next[out[1].hitTargetId] = out[1].target
    /\ rooms[r].pos[out[1].hitTargetId] # out[1].target
    /\ rooms[r].hp[out[1].hitTargetId] = MAX_HP - SD_DMG

\* C12 (SpecAim): an "sd" or "uh" cast at a tile that is the caster's own pos
\* or the caster's own next hits the caster and applies its effect to the
\* caster's hp.
C12_SelfStep ==
  \A c \in Conns, t \in AimTiles, type \in {"sd", "uh"} :
    /\ sdata[c] \in DOMAIN rooms
    /\ c \in Occupants(rooms[sdata[c]])
    /\ \/ MapGet(rooms[sdata[c]].pos, c, Null) = t
       \/ MapGet(rooms[sdata[c]].next, c, Null) = t
    /\ castRune(c, type, t)
    => LET hp == rooms[sdata[c]].hp[c]
       IN /\ out'[1].hit /\ out'[1].hitTargetId = c
          /\ rooms'[sdata[c]].hp[c] = IF type = "sd" THEN Max(0, hp - SD_DMG)
                                      ELSE Min(MAX_HP, hp + UH_HEAL)
C12_SelfTargetLikeOpponent == [][C12_SelfStep]_vars

\* the occupants whose hit test the cast (c, type, target) matches
Matched(room, c, type, target) ==
  IF type = "explo"
  THEN {pid \in Occupants(room) : standsOn(room, pid, exploTargets(target))}
  ELSE {pid \in Occupants(room) :
          \/ pid = c /\ MapGet(room.pos, c, Null) = target
          \/ pid = opponentOf(room, c) /\ standsOn(room, pid, {target})}

\* C13 (SpecDuel): a cast by a connection bound to a room of two distinct
\* occupants emits exactly one spellResolved; its hit flag is true iff some
\* occupant's hit test matched, and every occupant whose hp the cast
\* changed is reported as hit (an "explo" that damages both reports both).
C13_ResolvedStep ==
  \A c \in Conns, type \in RuneTypes, target \in Tiles :
    /\ sdata[c] \in DOMAIN rooms
    /\ Cardinality(Occupants(rooms[sdata[c]])) = 2
    /\ castRune(c, type, target)
    => LET room == rooms[sdata[c]]
           res == Resolved(out')
           reported == IF res[1].hit THEN {res[1].hitTargetId} ELSE {}
           modified == {id \in Occupants(room) :
                          rooms'[sdata[c]].hp[id] # room.hp[id]}
       IN /\ Len(res) = 1
          /\ res[1].hit <=> Matched(room, c, type, target) # {}
          /\ modified \subseteq reported
C13_OneOutcomePerCast == [][C13_ResolvedStep]_vars

\* the centre and its 4 cardinal neighbours that lie inside the grid
Cross(t) ==
  {u \in {<<t[1], t[2]>>, <<t[1], t[2] - 1>>, <<t[1], t[2] + 1>>,
          <<t[1] - 1, t[2]>>, <<t[1] + 1, t[2]>>} :
     u[1] \in 0..(GRID - 1) /\ u[2] \in 0..(GRID - 1)}

\* C14 (SpecAim): the pattern of an "explo" cast is the in-grid part of the
\* cross (3 cells at the corner (0,0)), and the cast lowers by EXPLO_DMG,
\* exactly once, the hp of each occupant whose pos or next is a cell of the
\* pattern, and changes no other occupant's hp.
C14_ExploStep ==
  \A c \in Conns, target \in AimTiles :
    /\ sdata[c] \in DOMAIN rooms
    /\ castRune(c, "explo", target)
    => /\ exploTargets(target) = Cross(target)
       /\ exploTargets(<<0, 0>>) = {<<0, 0>>, <<0, 1>>, <<1, 0>>}
       /\ \A id \in Occupants(rooms[sdata[c]]) :
            rooms'[sdata[c]].hp[id] =
              IF standsOn(rooms[sdata[c]], id, Cross(target))
              THEN Max(0, rooms[sdata[c]].hp[id] - EXPLO_DMG)
              ELSE rooms[sdata[c]].hp[id]
C14_ExploPattern == [][C14_ExploStep]_vars

\* C14, rooms of two distinct occupants (SpecAim): the same statement
C14_DistinctStep ==
  \A c \in Conns, target \in AimTiles :
    /\ sdata[c] \in DOMAIN rooms
    /\ Cardinality(Occupants(rooms[sdata[c]])) = Len(rooms[sdata[c]].players)
    /\ castRune(c, "explo", target)
    => /\ exploTargets(target) = Cross(target)
       /\ \A id \in Occupants(rooms[sdata[c]]) :
            rooms'[sdata[c]].hp[id] =
              IF standsOn(rooms[sdata[c]], id, Cross(target))
              THEN Max(0, rooms[sdata[c]].hp[id] - EXPLO_DMG)
              ELSE rooms[sdata[c]].hp[id]
C14_ExploPatternDistinct == [][C14_DistinctStep]_vars

\* C15 (SpecAim): a cast of any type at a tile outside the grid changes no
\* occupant's hp, score or ready flag and broadcasts no roundOver.
C15_OffGridStep ==
  \A c \in Conns, type \in RuneTypes, target \in AimTiles :
    /\ sdata[c] \in DOMAIN rooms
    /\ ~inGrid(target)
    /\ castRune(c, type, target)
    => /\ rooms'[sdata[c]].hp = rooms[sdata[c]].hp
       /\ rooms'[sdata[c]].score = rooms[sdata[c]].score
       /\ rooms'[sdata[c]].ready = rooms[sdata[c]].ready
       /\ \A i \in 1..Len(out') : out'[i].ev # "roundOver"
C15_OffGridCastIsNoOp == [][C15_OffGridStep]_vars

\* C16 (SpecDuel): every occupant's hp is an integer of 0..MAX_HP in every
\* state, a heal leaves an hp of MAX_HP unchanged and a damaging cast leaves
\* an hp of 0 unchanged.
C16_HpInRange ==
  \A r \in DOMAIN rooms : \A id \in Occupants(rooms[r]) :
    id \in DOMAIN rooms[r].hp /\ rooms[r].hp[id] \in 0..MAX_HP
C16_ClampStep ==
  \A c \in Conns, type \in RuneTypes, target \in Tiles :
    /\ sdata[c] \in DOMAIN rooms
    /\ castRune(c, type, target)
    => \A id \in Occupants(rooms[sdata[c]]) :
         /\ type = "uh" /\ rooms[sdata[c]].hp[id] = MAX_HP
            => rooms'[sdata[c]].hp[id] = MAX_HP
         /\ type # "uh" /\ rooms[sdata[c]].hp[id] = 0
            => rooms'[sdata[c]].hp[id] = 0
C16_HpStaysInRange == []C16_HpInRange /\ [][C16_ClampStep]_vars
\* an "sd" cast has just hit an occupant whose hp was 0 already (the round
\* had ended before), and another occupant is at MAX_HP
C16_Witness ==
  \E r \in DOMAIN rooms :
    /\ overs[r] = 2
    /\ out # <<>> /\ out[1].ev = "spellResolved" /\ out[1].type = "sd" /\ out[1].hit
    /\ out[1].hitTargetId \in Occupants(rooms[r])
    /\ rooms[r].hp[out[1].hitTargetId] = 0
    /\ \E id \in Occupants(rooms[r]) : rooms[r].hp[id] = MAX_HP

\* C16, part_000 (SpecMatch): every player's hp is an integer of 0..MAX_HP
C16_MatchHpInRange ==
  \A r \in DOMAIN mrooms : \A id \in DOMAIN mrooms[r].players :
    mrooms[r].players[id].hp \in 0..MAX_HP

\* C17 (SpecRejoin): when the roundStart of a countdown that two distinct
\* occupants started is broadcast to a room, every occupant the room then has
\* has hp MAX_HP and next none.
C17_RoundStartStep ==
  \A s1 \in SpawnTiles, s2 \in SpawnTiles :
    /\ timers # <<>>
    /\ Cardinality(Range(Head(timers).p)) = 2
    /\ roundStart(<<s1, s2>>)
    /\ Head(timers).roomId \in DOMAIN rooms'
    => \A id \in Occupants(rooms'[Head(timers).roomId]) :
         /\ MapGet(rooms'[Head(timers).roomId].hp, id, 0) = MAX_HP
         /\ MapGet(rooms'[Head(timers).roomId].next, id, Null) = Null
C17_RoundStartResetsOccupants == [][C17_RoundStartStep]_vars

\* C18 (SpecAim): a moveStart, moveComplete or castRune of a connection that
\* is not bound to a room of two occupants changes no room and emits nothing.
C18_LoneStep ==
  \A c \in Conns, tile \in AimTiles, type \in RuneTypes :
    /\ ~(sdata[c] \in DOMAIN rooms /\ Len(rooms[sdata[c]].players) = 2)
    /\ \/ moveStart(c, tile)
       \/ moveComplete(c, tile)
       \/ castRune(c, type, tile)
    => rooms' = rooms /\ out' = <<>>
C18_OnlyInRoomsOfTwo == [][C18_LoneStep]_vars

\* C19 (Spec): after one of the two distinct occupants of the room it is bound
\* to disconnects, the remaining occupant's ready flag is false.
C19_LeaveStep ==
  \A c \in Conns :
    /\ sdata[c] \in DOMAIN rooms
    /\ Cardinality(Occupants(rooms[sdata[c]])) = 2
    /\ c \in Occupants(rooms[sdata[c]])
    /\ disconnect(c)
    => /\ sdata[c] \in DOMAIN rooms'
       /\ \A d \in Occupants(rooms'[sdata[c]]) : ~isReady(rooms'[sdata[c]], d)
C19_DisconnectGoesIdle == [][C19_LeaveStep]_vars

\* C19, part_000 (SpecMatch): after one of the two players of a room
\* disconnects, the room is not in a round and the remaining player's ready
\* flag is false.
C19_MatchLeaveStep ==
  \A c \in Conns :
    /\ sdata[c] \in DOMAIN mrooms
    /\ c \in DOMAIN mrooms[sdata[c]].players
    /\ Cardinality(DOMAIN mrooms[sdata[c]].players) = 2
    /\ disconnect_match(c)
    => /\ sdata[c] \in DOMAIN mrooms'
       /\ ~mrooms'[sdata[c]].match.inRound
       /\ \A d \in DOMAIN mrooms'[sdata[c]].ready : ~mrooms'[sdata[c]].ready[d]
C19_MatchDisconnectGoesIdle == [][C19_MatchLeaveStep]_vars

\* the events of kind ev among the emitted events o
Events(o, ev) == SelectSeq(o, LAMBDA e : e.ev = ev)

\* C20 (SpecMatch): when a shot (the step that emits rune_fired, in the room
\* of its sender) ends a round with a win that brings the winner's roundWins
\* to WIN_THRESHOLD, match_ended names the winner, the
\* match state is reset (no roundWins, not in a round, every ready flag
\* false), the players stay and no timer is armed; no roundWins value ever
\* exceeds WIN_THRESHOLD.
C20_MatchEndStep ==
  LET ended == Events(out', "round_ended")
      r == sdata[out'[1].from]
  IN /\ out' # <<>> /\ out'[1].ev = "rune_fired"
     /\ ended # <<>>
     /\ ended[1].winnerId # NoConn
     /\ MapGet(mrooms[r].match.roundWins, ended[1].winnerId, 0) + 1 >= WIN_THRESHOLD
     => /\ Len(Events(out', "match_ended")) = 1
        /\ Events(out', "match_ended")[1].winnerId = ended[1].winnerId
        /\ mrooms'[r].match.roundWins = EmptyMap
        /\ ~mrooms'[r].match.inRound
        /\ DOMAIN mrooms'[r].players = DOMAIN mrooms[r].players
        /\ DOMAIN mrooms'[r].ready = DOMAIN mrooms[r].players
        /\ \A id \in DOMAIN mrooms'[r].ready : ~mrooms'[r].ready[id]
        /\ mtimers' = mtimers
C20_WinsBelowThreshold ==
  \A r \in DOMAIN mrooms :
    mrooms[r].match # Null =>
      \A id \in DOMAIN mrooms[r].match.roundWins :
        mrooms[r].match.roundWins[id] <= WIN_THRESHOLD
C21_ReadyStep ==
  \A c \in Conns :
    /\ sdata[c] \in DOMAIN mrooms
    /\ c \in DOMAIN mrooms[sdata[c]].players
    /\ ~mrooms[sdata[c]].ready[c]
    /\ set_ready(c, TRUE)
    /\ Cardinality(DOMAIN mrooms'[sdata[c]].players) = 2
    /\ everyReady(mrooms'[sdata[c]])
    => Events(out', "countdown") # <<>>
C21_CountdownBegan(r) ==
  /\ Events(out, "countdown") # <<>>
  /\ Events(out, "countdown")[1].count = COUNT_FROM
  /\ r \in DOMAIN mrooms
  /\ Events(out, "countdown")[1].to = joined[r]
C21_RoundBegan(r) ==
  \/ r \notin DOMAIN mrooms
  \/ Events(out, "round_started") # <<>> /\ mrooms[r].match.inRound
C21_BothReadyStartsRound ==
  /\ [][C21_ReadyStep]_vars
  /\ \A r \in GameIds : C21_CountdownBegan(r) ~> C21_RoundBegan(r)

\* C21, server.js (SpecLive): a setReady that leaves both occupants of a room
\* of two ready broadcasts roundCountdown, and while a round-start timer is
\* pending a roundStart is eventually broadcast.
C21_ServerReadyStep ==
  \A c \in Conns :
    /\ sdata[c] \in DOMAIN rooms
    /\ setReady(c)
    /\ bothReady(rooms'[sdata[c]])
    => Events(out', "roundCountdown") # <<>>
C21_ServerBothReadyStartsRound ==
  /\ [][C21_ServerReadyStep]_vars
  /\ (timers # <<>>) ~> (Events(out, "roundStart") # <<>>)

\* C22 (Spec): at most one round-start timer is pending for a room of two
\* distinct occupants, and a setReady received while one is pending arms no
\* other.
C22_PendingFor(r) == {i \in 1..Len(timers) : timers[i].roomId = r /\ timers[i].live}
C22_OneTimerPerRoom ==
  \A r \in DOMAIN rooms :
    Cardinality(Occupants(rooms[r])) = 2 => Cardinality(C22_PendingFor(r)) <= 1

\* C22, part_000 (SpecMatch): at most one countdown interval or inter-round
\* timeout is pending for a room.
C22_MatchOneTimerPerRoom ==
  \A r \in DOMAIN mrooms :
    Cardinality({i \in 1..Len(mtimers) : mtimers[i].roomId = r}) <= 1
====
